---- MODULE Spec2Model ----
(***************************************************************************)
(* Model of the metastat plugin: the repository manager dialog and the     *)
(* persisted repository list (dialogs.py, settings.py), the list widget    *)
(* with its fetch callback, filter and details panel (widgets.py, core.py),*)
(* the drag and drop handler of the plugin and its connections to the      *)
(* signals of the host (__init__.py, model.py).                            *)
(*                                                                         *)
(* Rows of tables and lists are numbered from 1 here; row r of the model   *)
(* is row r - 1 of the Qt widget.                                          *)
(***************************************************************************)
EXTENDS Integers, Sequences, FiniteSets, TLC

VARIABLES
    settings,      \* QSettings array 'metastat/repositories': size and entries
    table,         \* rows of repository_table_widget, each a (name, uri) pair
    delBtnEnabled, \* enabled state of repository_del_button
    msgBox,        \* title of the message box opened by the last dialog slot
    saveCalls,     \* number of calls of Repository.save
    emitted,       \* number of emissions of RepositoryMonitor.sgnUpdated
    lastSaved,     \* the list handed to the most recent Repository.save
    heard,         \* what Repository.load gave a listener of sgnUpdated, last emission
    lastOp         \* the last dialog slot that ran, with its inputs and the state before it

reposVars ==
    <<settings, table, delBtnEnabled, msgBox, saveCalls, emitted, lastSaved, heard, lastOp>>

VARIABLES
    model,         \* rows of MetastatWidget.model (QStandardItemModel): text and data
    requests,      \* number of GET requests issued through session.nmanager
    inflight,      \* replies that have not finished yet
    cb,            \* the last run of onRequestCompleted: its reply and what it did
    nmanager,      \* the requests handed to session.nmanager.get, in call order
    callbacks,     \* number of runs of onRequestCompleted
    statusBar,     \* the message shown in the status bar of the session
    log,           \* the last record written to LOGGER
    search,        \* text of the IRI search field
    typeCombobox,  \* current text of the type combo box
    lemma,         \* text of the lemma field
    description,   \* text of the description field
    owner,         \* text of the owner field
    proxy          \* MetastatFilterProxyModel: filter key column and fixed string

fetchVars == <<model, requests, inflight, cb, nmanager, callbacks, statusBar, log>>

filterVars == <<search, typeCombobox, lemma, description, owner, proxy>>

VARIABLES
    drag,          \* the drag of MetastatView in progress (inside drag.exec_), if any
    undostack,     \* the commands pushed to session.undostack, in push order
    macros,        \* macros opened on the undo stack and not yet ended
    prefixes,      \* the prefix dictionary of the project
    drop           \* the last run of onDiagramDragDropEvent: its event and what it did

dropVars == <<drag, undostack, macros, prefixes, drop>>

VARIABLES
    dto            \* an object taken through from_dict, to_dict and from_dict again

dtoVars == <<dto>>

VARIABLES
    details,       \* MetastatInfoWidget: its entity, the stacked widget shown, the fields
    press          \* the last run of onItemPressed: the index pressed and the row it maps to

detailsVars == <<details, press>>

VARIABLES
    connections,   \* for each signal, the number of connections to the slot of the plugin
    diagrams,      \* the diagrams of the project
    disposed,      \* dispose has run
    readyEvents,   \* number of emissions of session.sgnReady
    emission       \* the last signal emitted: how often it invoked the slot of the plugin

pluginVars == <<connections, diagrams, disposed, readyEvents, emission>>

VARIABLES
    dialog         \* the EntityTypeDialog of the drop being handled, or of the last one

dialogVars == <<dialog>>

vars == <<reposVars, fetchVars, filterVars, dropVars, dtoVars, detailsVars, pluginVars, dialogVars>>

-----------------------------------------------------------------------------
(* Bounds *)

MaxSaves == 4      \* Repository.save calls explored
MaxRanges == 2     \* selection ranges handed to doRemoveRepository
MaxFetches == 2    \* calls of getData explored, the one of the constructor included
MaxObjects == 2    \* objects in the JSON array of a reply
MaxDrops == 2      \* drop events delivered to onDiagramDragDropEvent
MaxDrags == 2      \* drags started from the list view
MaxLiterals == 2   \* literals in the lemma or definition list of a payload object
MaxReady == 2      \* emissions of session.sgnReady

-----------------------------------------------------------------------------
(* Strings *)

\* code unit order of the characters that occur in the strings of the model
Alphabet == " /:ABCabchptx"

RECURSIVE CharRank(_, _)
CharRank(c, i) ==
    IF i > Len(Alphabet) THEN 0
    ELSE IF SubSeq(Alphabet, i, i) = c THEN i
    ELSE CharRank(c, i + 1)

LowerChar(c) ==
    CASE c = "A" -> "a"
      [] c = "B" -> "b"
      [] c = "C" -> "c"
      [] c = "U" -> "u"
      [] c = "T" -> "t"
      [] c = "V" -> "v"
      [] c = "X" -> "x"
      [] OTHER -> c

RECURSIVE Lower(_)
Lower(str) ==
    IF Len(str) = 0 THEN ""
    ELSE LowerChar(SubSeq(str, 1, 1)) \o Lower(SubSeq(str, 2, Len(str)))

\* text contains key, regardless of case (Qt.CaseInsensitive fixed string match)
ContainsCI(text, key) ==
    \E i \in 0..(Len(text) - Len(key)) :
        Lower(SubSeq(text, i + 1, i + Len(key))) = Lower(key)

\* QString::compare(a, b) < 0: lexicographic on code units
RECURSIVE StrLess(_, _)
StrLess(a, b) ==
    IF Len(b) = 0 THEN FALSE
    ELSE IF Len(a) = 0 THEN TRUE
    ELSE LET ra == CharRank(SubSeq(a, 1, 1), 1)
             rb == CharRank(SubSeq(b, 1, 1), 1)
         IN  IF ra # rb THEN ra < rb
             ELSE StrLess(SubSeq(a, 2, Len(a)), SubSeq(b, 2, Len(b)))

-----------------------------------------------------------------------------
(* settings.py: the persisted repository list *)

RepoNames == {"", "a", "b", "B"}
RepoUris == {"", "http://h/", "http://a b/"}

Repository(name, uri) == [name |-> name, uri |-> uri]

\* QUrl(text).isValid(): the empty URL and a URL whose host has a space are invalid
QUrlIsValid(text) == text \notin {"", "http://a b/"}

\* Repository.load: beginReadArray gives the stored size, then one record per index
Load(s) == [i \in 1..s.size |-> s.entries[i]]

\* a save whose endArray never lowers a stored size
SaveKeepSize(s, repositories) ==
    LET n == Len(repositories)
        m == IF Len(s.entries) > n THEN Len(s.entries) ELSE n
    IN  [size |-> IF s.size > n THEN s.size ELSE n,
         entries |-> [i \in 1..m |-> IF i <= n THEN repositories[i] ELSE s.entries[i]]]

\* Repository.save: beginWriteArray drops the size, each setArrayIndex/setValue
\* overwrites one entry, endArray stores the highest index written as the size;
\* entries of a longer earlier array stay in the store beyond the size
Save(s, repositories) ==
    LET n == Len(repositories)
        m == IF Len(s.entries) > n THEN Len(s.entries) ELSE n
    IN  [size |-> n,
         entries |-> [i \in 1..m |-> IF i <= n THEN repositories[i] ELSE s.entries[i]]]

\* the store at an emission placed before settings.endArray(): no size yet
StoreBeforeEndArray(s, repositories) == [Save(s, repositories) EXCEPT !.size = 0]

\* the store when save runs K_REPO_MONITOR.sgnUpdated.emit(): the records are
\* written and endArray has stored the size
StoreAtEmit(s, repositories) == Save(s, repositories)

-----------------------------------------------------------------------------
(* dialogs.py: RepositoryManagerDialog *)

\* QTableWidget.sortItems(0): stable ascending sort of the rows on the name column
RECURSIVE InsertSorted(_, _)
InsertSorted(sorted, row) ==
    IF Len(sorted) = 0 THEN <<row>>
    ELSE IF StrLess(row.name, sorted[1].name) THEN <<row>> \o sorted
    ELSE <<sorted[1]>> \o InsertSorted(Tail(sorted), row)

RECURSIVE SortItems(_)
SortItems(rows) ==
    IF Len(rows) = 0 THEN <<>>
    ELSE InsertSorted(SortItems(SubSeq(rows, 1, Len(rows) - 1)), rows[Len(rows)])

\* doReloadRepositories: the table shows the loaded list, sorted by name
ReloadTable(s) == SortItems(Load(s))

\* QTableWidget.removeRow(row): no effect when the row does not exist
RemoveRow(rows, r) ==
    IF r \in 1..Len(rows)
    THEN SubSeq(rows, 1, r - 1) \o SubSeq(rows, r + 1, Len(rows))
    ELSE rows

\* for row in range(sel.bottomRow(), sel.topRow() + 1): widget.removeRow(row)
RECURSIVE RemoveRange(_, _, _)
RemoveRange(rows, row, stop) ==
    IF row >= stop THEN rows
    ELSE RemoveRange(RemoveRow(rows, row), row + 1, stop)

\* for sel in selections: ...
RECURSIVE RemoveSelections(_, _)
RemoveSelections(rows, selections) ==
    IF Len(selections) = 0 THEN rows
    ELSE RemoveSelections(
            RemoveRange(rows, selections[1].bottomRow, selections[1].topRow + 1),
            Tail(selections))

\* the rows covered by a list of selection ranges
SelectedRows(selections) ==
    UNION {selections[k].topRow .. selections[k].bottomRow : k \in 1..Len(selections)}

\* QTableWidget.selectedRanges(): pairwise disjoint row ranges of the table,
\* in the order in which the user selected them
SelectionRanges(n) == {[topRow |-> t, bottomRow |-> b] : t \in 1..n, b \in 1..n}

Selections(n) ==
    {sel \in UNION {[1..k -> {r \in SelectionRanges(n) : r.topRow <= r.bottomRow}]
                        : k \in 0..MaxRanges} :
        \A i, j \in 1..Len(sel) :
            i # j => (sel[i].topRow .. sel[i].bottomRow)
                        \cap (sel[j].topRow .. sel[j].bottomRow) = {}}

\* len(nameField.text()) == 0
NameIsEmptyNever(name) == FALSE

NameIsEmpty(name) == Len(name) = 0

\* any(map(lambda r: r.name == nameField.text(), repos))
NameExistsNever(repos, name) == FALSE

NameExists(repos, name) == \E i \in 1..Len(repos) : repos[i].name = name

doAddRepository(name, uri) ==
    /\ saveCalls < MaxSaves
    /\ lastOp' = [op |-> "add", name |-> name, uri |-> uri, selections |-> <<>>,
                  settings |-> settings, table |-> table,
                  saveCalls |-> saveCalls, emitted |-> emitted]
    /\ IF NameIsEmpty(name)
       THEN /\ msgBox' = "Invalid Repository Name"
            /\ UNCHANGED <<settings, table, delBtnEnabled, saveCalls, emitted,
                         lastSaved, heard>>
       ELSE IF ~QUrlIsValid(uri)
       THEN /\ msgBox' = "Invalid Repository URI"
            /\ UNCHANGED <<settings, table, delBtnEnabled, saveCalls, emitted,
                         lastSaved, heard>>
       ELSE LET repos == Load(settings) IN
            IF NameExists(repos, name)
            THEN /\ msgBox' = "Duplicate Repository Error"
                 /\ UNCHANGED <<settings, table, delBtnEnabled, saveCalls, emitted,
                         lastSaved, heard>>
            ELSE LET added == Append(repos, Repository(name, uri)) IN
                 /\ settings' = Save(settings, added)
                 /\ lastSaved' = added
                 /\ heard' = Load(StoreAtEmit(settings, added))
                 /\ saveCalls' = saveCalls + 1
                 /\ emitted' = emitted + 1
                 /\ table' = ReloadTable(settings')
                 /\ delBtnEnabled' = (Len(Load(settings')) > 0)
                 /\ msgBox' = "none"

doRemoveRepository(selections) ==
    /\ saveCalls < MaxSaves
    /\ lastOp' = [op |-> "remove", name |-> "", uri |-> "", selections |-> selections,
                  settings |-> settings, table |-> table,
                  saveCalls |-> saveCalls, emitted |-> emitted]
    /\ LET repos == RemoveSelections(table, selections) IN
       /\ settings' = Save(settings, repos)
       /\ lastSaved' = repos
       /\ heard' = Load(StoreAtEmit(settings, repos))
       /\ saveCalls' = saveCalls + 1
       /\ emitted' = emitted + 1
       /\ table' = ReloadTable(settings')
       /\ delBtnEnabled' = (Len(Load(settings')) > 0)
       /\ msgBox' = "none"

AddRepository == \E name \in RepoNames, uri \in RepoUris : doAddRepository(name, uri)

RemoveRepository ==
    /\ delBtnEnabled
    /\ \E selections \in Selections(Len(table)) : doRemoveRepository(selections)

\* the dialog opens on fresh preferences: no array stored, an empty table
InitRepos ==
    /\ settings = [size |-> 0, entries |-> <<>>]
    /\ table = ReloadTable(settings)
    /\ delBtnEnabled = FALSE
    /\ msgBox = "none"
    /\ saveCalls = 0
    /\ emitted = 0
    /\ lastSaved = <<>>
    /\ heard = <<>>
    /\ lastOp = [op |-> "none", name |-> "", uri |-> "", selections |-> <<>>,
                 settings |-> [size |-> 0, entries |-> <<>>], table |-> <<>>,
                 saveCalls |-> 0, emitted |-> 0]

-----------------------------------------------------------------------------
(* core.py: the entities built by the list widget from a reply *)

RdfsLabel == "http://www.w3.org/2000/01/rdf-schema#label"
RdfsComment == "http://www.w3.org/2000/01/rdf-schema#comment"

KeyError(key) == [ok |-> FALSE, error |-> "KeyError", key |-> key]
Ok(value) == [ok |-> TRUE, value |-> value]

\* core.Owner.from_dict: None (the empty sequence here) when the object has no id
CoreOwnerFromDict(data) ==
    IF "id" \in DOMAIN data
    THEN IF "name" \in DOMAIN data
         THEN Ok(<<[id |-> data.id, name |-> data.name]>>)
         ELSE KeyError("name")
    ELSE Ok(<<>>)

\* core.Annotation.from_dict with the subject ent.to_dict() and a literal object
CoreAnnotationFromDict(data, subject, predicate) ==
    IF "value" \notin DOMAIN data THEN KeyError("value")
    ELSE IF "lang" \notin DOMAIN data THEN KeyError("lang")
    ELSE Ok([subject |-> subject, predicate |-> predicate,
             object |-> [value |-> data.value, language |-> data.lang]])

\* the loops `for a in data["lemma"]` and `for a in data["definition"]`
RECURSIVE CoreAnnotations(_, _, _)
CoreAnnotations(items, subject, predicate) ==
    IF Len(items) = 0 THEN Ok(<<>>)
    ELSE LET first == CoreAnnotationFromDict(items[1], subject, predicate) IN
         IF ~first.ok THEN first
         ELSE LET rest == CoreAnnotations(Tail(items), subject, predicate) IN
              IF ~rest.ok THEN rest ELSE Ok(<<first.value>> \o rest.value)

\* core.NamedEntity.from_dict
CoreNamedEntityFromDict(data) ==
    IF "id" \notin DOMAIN data THEN KeyError("id")
    ELSE IF "type" \notin DOMAIN data THEN KeyError("type")
    ELSE LET subject == [id |-> data.id, type |-> data.type]
             own == IF "owner" \in DOMAIN data
                    THEN CoreOwnerFromDict(data.owner) ELSE Ok(<<>>)
             lem == IF "lemma" \in DOMAIN data
                    THEN CoreAnnotations(data.lemma, subject, RdfsLabel) ELSE Ok(<<>>)
             def == IF "definition" \in DOMAIN data
                    THEN CoreAnnotations(data.definition, subject, RdfsComment)
                    ELSE Ok(<<>>)
         IN  IF ~own.ok THEN own
             ELSE IF ~lem.ok THEN lem
             ELSE IF ~def.ok THEN def
             ELSE Ok([id |-> data.id, type |-> data.type, lemmas |-> lem.value,
                      definitions |-> def.value, owner |-> own.value])

-----------------------------------------------------------------------------
\* core.LiteralValue.to_dict
CoreLiteralValueToDict(literal) ==
    [value |-> literal.value, language |-> literal.language]

\* core.Annotation.to_dict
CoreAnnotationToDict(annotation) ==
    [property |-> annotation.predicate, value |-> CoreLiteralValueToDict(annotation.object)]

\* core.Owner.to_dict
CoreOwnerToDict(own) == [id |-> own.id, name |-> own.name]

AttributeError(attr) == [ok |-> FALSE, error |-> "AttributeError", key |-> attr]

\* core.NamedEntity.to_dict: with deep, self.owner.to_dict() is called on
\* whatever self.owner is, None included
CoreNamedEntityToDict(entity, deep) ==
    IF ~deep THEN Ok([id |-> entity.id, type |-> entity.type])
    ELSE IF Len(entity.owner) = 0 THEN AttributeError("to_dict")
    ELSE Ok([id |-> entity.id, type |-> entity.type,
             lemma |-> [k \in 1..Len(entity.lemmas) |->
                            CoreAnnotationToDict(entity.lemmas[k])],
             definition |-> [k \in 1..Len(entity.definitions) |->
                                CoreAnnotationToDict(entity.definitions[k])],
             owner |-> CoreOwnerToDict(entity.owner[1])])

-----------------------------------------------------------------------------
(* widgets.py: MetastatWidget, the fetch and its completion callback *)

\* the objects a repository may put in the JSON array of a reply
FullObject ==
    [id |-> "Ab", type |-> "UnitType",
     lemma |-> <<[value |-> "Xa", lang |-> "it"], [value |-> "b", lang |-> "en"]>>,
     definition |-> <<[value |-> "c", lang |-> "en"]>>,
     owner |-> [id |-> "o1", name |-> "Bc"]]

PlainObject == [id |-> "b", type |-> "Variabile"]

NoIdObject == [type |-> "UnitType"]

NoLangObject == [id |-> "c", type |-> "Variabile", lemma |-> <<[value |-> "x"]>>]

Objects == {FullObject, PlainObject, NoIdObject, NoLangObject}

JsonArrays == UNION {[1..n -> Objects] : n \in 0..MaxObjects}

\* a finished reply: a network error, a body that is not JSON, or a JSON array
Replies ==
    {[error |-> TRUE, json |-> FALSE, data |-> <<>>],
     [error |-> FALSE, json |-> FALSE, data |-> <<>>]}
        \cup {[error |-> FALSE, json |-> TRUE, data |-> d] : d \in JsonArrays}

ErrorString == "Connection refused"

\* a loop that puts each new row on top of the model: insertRow(0, item)
RECURSIVE InsertRowsOnTop(_, _)
InsertRowsOnTop(rows, data) ==
    IF Len(data) = 0 THEN [rows |-> rows, raised |-> FALSE, key |-> ""]
    ELSE IF "id" \notin DOMAIN data[1] THEN [rows |-> rows, raised |-> TRUE, key |-> "id"]
    ELSE LET ent == CoreNamedEntityFromDict(data[1]) IN
         IF ~ent.ok THEN [rows |-> rows, raised |-> TRUE, key |-> ent.key]
         ELSE InsertRowsOnTop(<<[text |-> data[1].id, data |-> ent.value]>> \o rows,
                              Tail(data))

\* the loop `for d in data` of onRequestCompleted: rows are appended one at a
\* time and stay in the model when a later object raises
RECURSIVE AppendRows(_, _)
AppendRows(rows, data) ==
    IF Len(data) = 0 THEN [rows |-> rows, raised |-> FALSE, key |-> ""]
    ELSE IF "id" \notin DOMAIN data[1] THEN [rows |-> rows, raised |-> TRUE, key |-> "id"]
    ELSE LET ent == CoreNamedEntityFromDict(data[1]) IN
         IF ~ent.ok THEN [rows |-> rows, raised |-> TRUE, key |-> ent.key]
         ELSE AppendRows(Append(rows, [text |-> data[1].id, data |-> ent.value]),
                         Tail(data))

\* QtCore.QUrl('https://obdasys.ddns.net/metastat') with '/all' added to its path
RequestUrl == "https://obdasys.ddns.net/metastat" \o "/all"

\* the request of getData, with the URIs of the repository records that are
\* in the preferences when it is issued
Request == [url |-> RequestUrl,
            configured |-> {Load(settings)[k].uri : k \in 1..Len(Load(settings))}]

\* getData with the finished signal of the reply connected twice
getDataConnectedTwice ==
    /\ requests < MaxFetches
    /\ requests' = requests + 1
    /\ nmanager' = Append(nmanager, Request)
    /\ inflight' = inflight + 2
    /\ UNCHANGED <<model, cb, callbacks, statusBar, log>>

\* getData: one GET on the network manager, its reply connected to the callback
getData ==
    /\ requests < MaxFetches
    /\ requests' = requests + 1
    /\ nmanager' = Append(nmanager, Request)
    /\ inflight' = inflight + 1
    /\ UNCHANGED <<model, cb, callbacks, statusBar, log>>

\* an except clause that names only KeyError
ExceptKeyErrorCatches(exc) == exc = "KeyError"

\* `except Exception as e`: JSONDecodeError (a ValueError) and KeyError are both caught
ExceptClauseCatches(exc) == exc \in {"JSONDecodeError", "KeyError", "TypeError", "ValueError"}

\* the body of the try statement of onRequestCompleted: the rows of the model,
\* the log record and the status bar message it leaves, and what it raised
TryBody(reply) ==
    IF reply.error
    THEN LET msg == "Failed to retrieve metadata: " \o ErrorString IN
         [rows |-> model, raised |-> "none", key |-> "",
          warned |-> TRUE, shown |-> TRUE, msg |-> msg]
    ELSE IF ~reply.json
    THEN [rows |-> model, raised |-> "JSONDecodeError", key |-> "",
          warned |-> FALSE, shown |-> FALSE, msg |-> ""]
    ELSE LET res == AppendRows(model, reply.data) IN
         [rows |-> res.rows, raised |-> IF res.raised THEN "KeyError" ELSE "none",
          key |-> res.key, warned |-> FALSE, shown |-> FALSE, msg |-> ""]

\* onRequestCompleted, run for the finished signal of a reply
onRequestCompleted(reply) ==
    /\ inflight > 0
    /\ inflight' = inflight - 1
    /\ callbacks' = callbacks + 1
    /\ UNCHANGED <<requests, nmanager>>
    /\ LET body == TryBody(reply)
           caught == body.raised # "none" /\ ExceptClauseCatches(body.raised)
       IN  /\ model' = body.rows
           /\ statusBar' = IF body.shown THEN body.msg ELSE statusBar
           /\ log' = IF body.warned THEN [level |-> "warning", msg |-> body.msg]
                     ELSE IF caught
                     THEN [level |-> "error",
                           msg |-> "Failed to retrieve metadata: "
                                      \o body.raised \o body.key]
                     ELSE log
           /\ cb' = [ran |-> TRUE, reply |-> reply, before |-> model,
                     raised |-> body.raised,
                     logged |-> body.warned \/ caught,
                     shown |-> body.shown,
                     propagated |-> body.raised # "none" /\ ~caught,
                     issued |-> requests' - requests]

RequestCompleted ==
    /\ \E reply \in Replies : onRequestCompleted(reply)
    /\ UNCHANGED filterVars

GetData == getData /\ UNCHANGED filterVars

InitFetch ==
    /\ model = <<>>
    /\ requests = 1
    /\ nmanager = <<[url |-> RequestUrl, configured |-> {}]>>
    /\ inflight = 1
    /\ callbacks = 0
    /\ cb = [ran |-> FALSE, reply |-> [error |-> FALSE, json |-> TRUE, data |-> <<>>],
             before |-> <<>>, raised |-> "none", logged |-> FALSE, shown |-> FALSE,
             propagated |-> FALSE, issued |-> 0]
    /\ statusBar = ""
    /\ log = [level |-> "none", msg |-> ""]

-----------------------------------------------------------------------------
(* widgets.py: the filter inputs and the proxy model of the list view *)

SearchKeys == {"", "a", "B"}
TypeItems == {"", "UnitType"}
LemmaKeys == {"", "X"}
DescriptionKeys == {"", "c"}
OwnerKeys == {"", "bc"}

\* doFilterItemByIri, connected to search.textChanged
doFilterItemByIri(key) ==
    /\ search' = key
    /\ proxy' = [filterKeyColumn |-> 0, filterFixedString |-> key, sortColumn |-> 0]
    /\ UNCHANGED <<typeCombobox, lemma, description, owner>>

\* the type combo box, the lemma, description and owner fields are not
\* connected to any slot: a change of their value changes nothing else
typeComboboxChanged(text) ==
    /\ typeCombobox' = text
    /\ UNCHANGED <<search, lemma, description, owner, proxy>>

lemmaChanged(key) ==
    /\ lemma' = key
    /\ UNCHANGED <<search, typeCombobox, description, owner, proxy>>

descriptionChanged(key) ==
    /\ description' = key
    /\ UNCHANGED <<search, typeCombobox, lemma, owner, proxy>>

ownerChanged(key) ==
    /\ owner' = key
    /\ UNCHANGED <<search, typeCombobox, lemma, description, proxy>>

\* MetastatFilterProxyModel.filterAcceptsRow for a top level row: the fixed
\* string is looked up in the display text of the filter key column
filterAcceptsRow(sourceRow) ==
    ContainsCI(model[sourceRow].text, proxy.filterFixedString)

FilterByIri == (\E key \in SearchKeys : doFilterItemByIri(key)) /\ UNCHANGED fetchVars
TypeChanged == (\E text \in TypeItems : typeComboboxChanged(text)) /\ UNCHANGED fetchVars
LemmaChanged == (\E key \in LemmaKeys : lemmaChanged(key)) /\ UNCHANGED fetchVars
DescriptionChanged ==
    (\E key \in DescriptionKeys : descriptionChanged(key)) /\ UNCHANGED fetchVars
OwnerChanged == (\E key \in OwnerKeys : ownerChanged(key)) /\ UNCHANGED fetchVars

InitFilter ==
    /\ search = ""
    /\ typeCombobox = ""
    /\ lemma = ""
    /\ description = ""
    /\ owner = ""
    /\ proxy = [filterKeyColumn |-> 0, filterFixedString |-> "", sortColumn |-> -1]

-----------------------------------------------------------------------------
(* widgets.py: the rows of the list view and the details panel *)

\* the source rows that the proxy accepts, in source order
RECURSIVE AcceptedRows(_)
AcceptedRows(n) ==
    IF n = 0 THEN <<>>
    ELSE AcceptedRows(n - 1) \o (IF filterAcceptsRow(n) THEN <<n>> ELSE <<>>)

\* a source row put in its place among rows sorted on the display text
\* (case sensitive), after the rows of equal text
RECURSIVE InsertRow(_, _)
InsertRow(sorted, row) ==
    IF Len(sorted) = 0 THEN <<row>>
    ELSE IF StrLess(model[row].text, model[sorted[1]].text) THEN <<row>> \o sorted
    ELSE <<sorted[1]>> \o InsertRow(Tail(sorted), row)

RECURSIVE SortRows(_)
SortRows(rows) ==
    IF Len(rows) = 0 THEN <<>>
    ELSE InsertRow(SortRows(SubSeq(rows, 1, Len(rows) - 1)), rows[Len(rows)])

\* the rows of the view: the source row behind each proxy row. The proxy keeps
\* source order until proxy.sort has been called, and then sorts on column 0
ProxyRows ==
    IF proxy.sortColumn = -1 THEN AcceptedRows(Len(model))
    ELSE SortRows(AcceptedRows(Len(model)))

\* proxy.mapToSource(index)
mapToSource(index) == ProxyRows[index]

\* the rows that EntityInfo.updateData adds to metadataLayout for one annotation
AnnotationRows(label, annotation) ==
    <<[key |-> "Property", value |-> label],
      [key |-> "Value", value |-> annotation.object.value]>>
        \o (IF annotation.object.language # ""
            THEN <<[key |-> "lang", value |-> annotation.object.language]>>
            ELSE <<>>)

RECURSIVE MetadataRows(_, _)
MetadataRows(label, annotations) ==
    IF Len(annotations) = 0 THEN <<>>
    ELSE AnnotationRows(label, annotations[1]) \o MetadataRows(label, Tail(annotations))

\* EntityInfo.updateData: the owner field is written only when the entity has
\* an owner, the type field only when it has a type
updateData(info, entity) ==
    [info EXCEPT !.idField = entity.id,
                 !.ownerField = IF Len(entity.owner) = 1 THEN entity.owner[1].name ELSE @,
                 !.typeField = IF entity.type # "" THEN entity.type ELSE @,
                 !.metadata = MetadataRows("Label", entity.lemmas)
                                 \o MetadataRows("Comment", entity.definitions)]

\* MetastatInfoWidget.stack with the entity just stored in details.entity
stack(info) ==
    IF Len(info.entity) = 1
    THEN [updateData(info, info.entity[1]) EXCEPT !.shown = "infoEntity"]
    ELSE [info EXCEPT !.shown = "infoEmpty"]

\* onItemPressed(index) with the mouse buttons that are down
onItemPressed(index, leftButton) ==
    /\ index \in 1..Len(ProxyRows)
    /\ press' = [ran |-> TRUE, leftButton |-> leftButton, index |-> index,
                 sourceRow |-> mapToSource(index),
                 entity |-> model[mapToSource(index)].data]
    /\ details' = IF leftButton
                  THEN stack([details EXCEPT !.entity = <<model[mapToSource(index)].data>>])
                  ELSE details

ItemPressed ==
    /\ \E index \in 1..Len(ProxyRows), leftButton \in BOOLEAN :
          onItemPressed(index, leftButton)
    /\ UNCHANGED <<fetchVars, filterVars>>

InitDetails ==
    /\ details = [entity |-> <<>>, shown |-> "infoEmpty", idField |-> "",
                  ownerField |-> "", typeField |-> "", metadata |-> <<>>]
    /\ press = [ran |-> FALSE, leftButton |-> FALSE, index |-> 0, sourceRow |-> 0,
                entity |-> <<>>]

-----------------------------------------------------------------------------
(* model.py: the entities built by the plugin from a drop payload *)

MetastatNamespace == "http://www.istat.it/metastat/"

\* model.LiteralValue.from_dict
LiteralValueFromDict(data) ==
    IF "value" \notin DOMAIN data THEN KeyError("value")
    ELSE IF "lang" \notin DOMAIN data THEN KeyError("lang")
    ELSE Ok([value |-> data.value, lang |-> data.lang])

\* [LiteralValue.from_dict(l) for l in data[...]]
RECURSIVE LiteralValues(_)
LiteralValues(items) ==
    IF Len(items) = 0 THEN Ok(<<>>)
    ELSE LET first == LiteralValueFromDict(items[1]) IN
         IF ~first.ok THEN first
         ELSE LET rest == LiteralValues(Tail(items)) IN
              IF ~rest.ok THEN rest ELSE Ok(<<first.value>> \o rest.value)

\* model.Owner.from_dict: data.get gives None (the empty sequence) for a missing key
OwnerFromDict(data) ==
    [id |-> IF "id" \in DOMAIN data THEN <<data.id>> ELSE <<>>,
     name |-> IF "name" \in DOMAIN data THEN <<data.name>> ELSE <<>>]

\* model.NamedEntity.from_dict; no owner is the empty sequence
NamedEntityFromDict(data) ==
    IF "id" \notin DOMAIN data THEN KeyError("id")
    ELSE IF "type" \notin DOMAIN data THEN KeyError("type")
    ELSE LET lem == IF "lemma" \in DOMAIN data
                    THEN LiteralValues(data.lemma) ELSE Ok(<<>>)
             def == IF "definition" \in DOMAIN data
                    THEN LiteralValues(data.definition) ELSE Ok(<<>>)
         IN  IF ~lem.ok THEN lem
             ELSE IF ~def.ok THEN def
             ELSE Ok([id |-> data.id, type |-> data.type,
                      lemma |-> lem.value, definition |-> def.value,
                      owner |-> IF "owner" \in DOMAIN data
                                THEN <<OwnerFromDict(data.owner)>> ELSE <<>>])

\* model.NamedEntity.iri
NamedEntityIri(entity) == MetastatNamespace \o entity.id

\* model.LiteralValue.to_dict
LiteralValueToDict(literal) == [value |-> literal.value, lang |-> literal.lang]

\* the truth value Python gives to an attribute that is None or a string
Truthy(attr) == Len(attr) = 1 /\ attr[1] # ""

\* model.Owner.to_dict: a key is written only for a truthy attribute
OwnerToDict(own) ==
    [k \in {key \in {"id", "name"} : Truthy(own[key])} |-> own[k][1]]

\* model.NamedEntity.to_dict: with deep, an entity without owner gets the
\* empty dict under "owner"
NamedEntityToDict(entity, deep) ==
    IF ~deep THEN [id |-> entity.id, type |-> entity.type]
    ELSE [id |-> entity.id, type |-> entity.type,
          lemma |-> [k \in 1..Len(entity.lemma) |-> LiteralValueToDict(entity.lemma[k])],
          definition |-> [k \in 1..Len(entity.definition) |->
                             LiteralValueToDict(entity.definition[k])],
          owner |-> IF Len(entity.owner) = 1 THEN OwnerToDict(entity.owner[1])
                    ELSE [k \in {} |-> ""]]

-----------------------------------------------------------------------------
(* model.py, core.py: an entity object taken through from_dict and to_dict *)

PayloadLiterals == {[value |-> "Xa", lang |-> "it"], [value |-> "b", lang |-> "en"]}

PayloadLists == UNION {[1..n -> PayloadLiterals] : n \in 0..MaxLiterals}

PayloadOwners == {[id |-> "o1", name |-> "Bc"]}

\* the objects of the inbound shape: id and type, and any subset of the
\* optional keys lemma, definition and owner
PayloadObjects ==
    {[key \in {"id", "type"} \cup optional |->
        CASE key = "id" -> id_
          [] key = "type" -> "UnitType"
          [] key = "lemma" -> lem
          [] key = "definition" -> def
          [] key = "owner" -> own] :
        id_ \in {"Ab", "b"}, optional \in SUBSET {"lemma", "definition", "owner"},
        lem \in PayloadLists, def \in PayloadLists, own \in PayloadOwners}

EntityClasses == {"model.NamedEntity", "core.NamedEntity"}

\* cls.from_dict(data) for one of the two NamedEntity classes
fromDict(cls, data) ==
    /\ dto.step = "none"
    /\ dto' = [dto EXCEPT !.step = "from_dict", !.cls = cls, !.data = data,
                  !.entity = IF cls = "model.NamedEntity"
                             THEN NamedEntityFromDict(data)
                             ELSE CoreNamedEntityFromDict(data)]

\* entity.to_dict(deep=True) of the entity built by from_dict
toDict ==
    /\ dto.step = "from_dict"
    /\ dto.entity.ok
    /\ dto' = [dto EXCEPT !.step = "to_dict",
                  !.dict = IF dto.cls = "model.NamedEntity"
                           THEN Ok(NamedEntityToDict(dto.entity.value, TRUE))
                           ELSE CoreNamedEntityToDict(dto.entity.value, TRUE)]

\* cls.from_dict of the dict that to_dict has returned
fromDictAgain ==
    /\ dto.step = "to_dict"
    /\ dto.dict.ok
    /\ dto' = [dto EXCEPT !.step = "round_trip",
                  !.again = IF dto.cls = "model.NamedEntity"
                            THEN NamedEntityFromDict(dto.dict.value)
                            ELSE CoreNamedEntityFromDict(dto.dict.value)]

FromDict == \E cls \in EntityClasses, data \in PayloadObjects : fromDict(cls, data)
ToDict == toDict
FromDictAgain == fromDictAgain

InitDto ==
    dto = [step |-> "none", cls |-> "", data |-> <<>>, entity |-> <<>>,
           dict |-> <<>>, again |-> <<>>]

-----------------------------------------------------------------------------
(* widgets.py: MetastatView, the producer of the drag *)

\* eddy.core.datatypes.graphol.Item: the values of the node types
ConceptNode == "65537"
AttributeNode == "65538"
RoleNode == "65539"
IndividualNode == "65541"

MetastatFormat == "application/json+metastat"
OriginPredicate == "urn:x-graphol:origin"

\* QMimeData: setText stores the text as text/plain, setData stores a format
MimeData(text, format, payload) ==
    [text |-> text, formats |-> {"text/plain", format}, format |-> format,
     payload |-> payload]

hasFormat(mimeData, format) == format \in mimeData.formats

\* CommandIRIAddAnnotationAssertion(project, subject, AnnotationAssertion(...))
AddAnnotationAssertion(subject, predicate, value, language) ==
    [cmd |-> "CommandIRIAddAnnotationAssertion", subject |-> subject,
     predicate |-> predicate, value |-> value, language |-> language, item |-> ""]

\* CommandNodeAdd(diagram, node) for a node of the given item type and IRI
NodeAdd(iri, item) ==
    [cmd |-> "CommandNodeAdd", subject |-> iri, predicate |-> "", value |-> "",
     language |-> "", item |-> item]

\* the MIME data mouseMoveEvent builds for the entity of the selected row
DragMimeData(entity) ==
    MimeData(ConceptNode, ConceptNode, [kind |-> "bytes", text |-> entity.id])

\* mouseMoveEvent up to drag.exec_, which runs the drag in a nested event loop
mouseMoveEventBegin(row) ==
    /\ Len(drag) = 0
    /\ drop.drags < MaxDrags
    /\ row \in 1..Len(model)
    /\ filterAcceptsRow(row)
    /\ drag' = <<[entity |-> model[row].data, mimeData |-> DragMimeData(model[row].data)]>>
    /\ drop' = [drop EXCEPT !.drags = @ + 1]
    /\ UNCHANGED <<undostack, macros, prefixes>>

\* the assertions mouseMoveEvent pushes for the lemmas or definitions of the entity
AnnotationCommands(subject, annotations) ==
    [k \in 1..Len(annotations) |->
        AddAnnotationAssertion(subject, annotations[k].predicate,
                               annotations[k].object.value,
                               annotations[k].object.language)]

\* mouseMoveEvent after drag.exec_ has returned
mouseMoveEventEnd ==
    /\ Len(drag) = 1
    /\ LET data == drag[1].entity
           subj == data.id
       IN  undostack' = undostack
                \o <<AddAnnotationAssertion(subj, OriginPredicate, "metastat", "")>>
                \o AnnotationCommands(subj, data.lemmas)
                \o AnnotationCommands(subj, data.definitions)
    /\ drag' = <<>>
    /\ UNCHANGED <<macros, prefixes, drop>>

-----------------------------------------------------------------------------
(* __init__.py: MetastatPlugin, the consumer of the drop *)

ItemTypes == {ConceptNode, RoleNode, AttributeNode, IndividualNode}

\* the payloads that drag sources put under application/json+metastat:
\* the JSON text of an entity dict, or bytes that are not JSON
DropPayloads ==
    {[kind |-> "json", object |-> o] : o \in Objects}
        \cup {[kind |-> "bytes", text |-> "Ab"]}

\* the MIME data of the drop events that other drag sources deliver to a
\* diagram: a payload under application/json+metastat, or a palette item of
\* the host as plain text
DropMimeData ==
    {MimeData("", MetastatFormat, p) : p \in DropPayloads}
        \cup {MimeData(ConceptNode, "text/plain", [kind |-> "bytes", text |-> ConceptNode])}

\* the results of EntityTypeDialog.exec_: accepted with one type checked, or rejected
DialogOutcomes ==
    {[result |-> "Accepted", checkedId |-> t] : t \in ItemTypes}
        \cup {[result |-> "Rejected", checkedId |-> ""]}

\* the subject named by the bare id, as the list view does
SubjectIriBareId(entity) == entity.id

\* 'http://www.istat.it/metastat/' + str(entity.id)
SubjectIri(entity) == "http://www.istat.it/metastat/" \o entity.id

\* the rdfs:label or rdfs:comment assertions of a list of literals, in list order
LiteralCommands(subject, predicate, literals) ==
    [k \in 1..Len(literals) |->
        AddAnnotationAssertion(subject, predicate, literals[k].value, literals[k].lang)]

\* the commands an accepted drop pushes between beginMacro and endMacro
DropCommands(entity, checkedId) ==
    LET subject == SubjectIri(entity) IN
    <<AddAnnotationAssertion(subject, OriginPredicate, MetastatNamespace, "")>>
        \o LiteralCommands(subject, RdfsLabel, entity.lemma)
        \o LiteralCommands(subject, RdfsComment, entity.definition)
        \o <<NodeAdd(subject, checkedId)>>

\* json.loads(...) of the payload followed by NamedEntity.from_dict
PayloadEntity(payload) ==
    IF payload.kind # "json"
    THEN [ok |-> FALSE, error |-> "JSONDecodeError", key |-> ""]
    ELSE NamedEntityFromDict(payload.object)

\* project.setPrefix(prefix, namespace): the prefix is bound, or bound anew
setPrefix(dict, prefix, namespace) ==
    [p \in DOMAIN dict \cup {prefix} |-> IF p = prefix THEN namespace ELSE dict[p]]

\* a test on the name of the prefix instead of its namespace
PrefixPresentByName(dict) == "metastat" \in DOMAIN dict

\* any([ns == 'http://www.istat.it/metastat/' for _, ns in prefixDictItems()])
PrefixPresent(dict) == \E p \in DOMAIN dict : dict[p] = MetastatNamespace

NoDropEffect ==
    [ran |-> TRUE, hasFormat |-> FALSE, accepted |-> FALSE, payload |-> [kind |-> "none"],
     dialogResult |-> "none", checkedId |-> "", first |-> 1, last |-> 0, raised |-> "none",
     dropAction |-> "CopyAction", ignored |-> FALSE, prefixesBefore |-> prefixes,
     prefixesAfter |-> prefixes, setPrefixCalls |-> drop.setPrefixCalls,
     drops |-> drop.drops + 1, drags |-> drop.drags]

DialogAcceptedAlways(dialogResult) == TRUE

\* dialog.exec_() == QtWidgets.QDialog.Accepted
DialogAccepted(dialogResult) == dialogResult = "Accepted"

\* the host call between beginMacro and endMacro that raises, if one does:
\* project.getIRI for the subject, or diagram.factory.create for the node
HostFailures == {"none", "getIRI", "create"}

\* onDiagramDragDropEvent(diagram, event) with the result of the entity type
\* dialog and the host call that raises
onDiagramDragDropEvent(mimeData, dialogResult, checkedId, failure) ==
    /\ drop.drops < MaxDrops
    /\ UNCHANGED drag
    /\ IF ~hasFormat(mimeData, MetastatFormat)
       THEN /\ drop' = NoDropEffect
            /\ UNCHANGED <<undostack, macros, prefixes>>
       ELSE IF ~DialogAccepted(dialogResult)
       THEN /\ drop' = [NoDropEffect EXCEPT !.hasFormat = TRUE,
                            !.dialogResult = dialogResult,
                            !.payload = mimeData.payload,
                            !.dropAction = "IgnoreAction", !.ignored = TRUE]
            /\ UNCHANGED <<undostack, macros, prefixes>>
       ELSE LET ent == PayloadEntity(mimeData.payload) IN
            IF ~ent.ok
            THEN \* raised before beginMacro, nothing is pushed
                 /\ drop' = [NoDropEffect EXCEPT !.hasFormat = TRUE, !.accepted = TRUE,
                                !.dialogResult = dialogResult,
                                !.payload = mimeData.payload, !.checkedId = checkedId,
                                !.raised = ent.error]
                 /\ UNCHANGED <<undostack, macros, prefixes>>
            ELSE IF failure = "getIRI"
            THEN \* raised behind beginMacro: endMacro is not reached
                 /\ macros' = macros + 1
                 /\ drop' = [NoDropEffect EXCEPT !.hasFormat = TRUE, !.accepted = TRUE,
                                !.dialogResult = dialogResult,
                                !.payload = mimeData.payload, !.checkedId = checkedId,
                                !.raised = "HostError"]
                 /\ UNCHANGED <<undostack, prefixes>>
            ELSE IF failure = "create"
            THEN \* raised behind the pushes of the assertions: no node is added
                 \* and endMacro is not reached
                 /\ undostack' =
                        undostack
                            \o SubSeq(DropCommands(ent.value, checkedId), 1,
                                      Len(DropCommands(ent.value, checkedId)) - 1)
                 /\ macros' = macros + 1
                 /\ prefixes' =
                        IF PrefixPresent(prefixes) THEN prefixes
                        ELSE setPrefix(prefixes, "metastat", MetastatNamespace)
                 /\ drop' = [NoDropEffect EXCEPT !.hasFormat = TRUE, !.accepted = TRUE,
                                !.dialogResult = dialogResult,
                                !.payload = mimeData.payload, !.checkedId = checkedId,
                                !.raised = "HostError",
                                !.first = Len(undostack) + 1,
                                !.last = Len(undostack'),
                                !.prefixesAfter = prefixes',
                                !.setPrefixCalls =
                                    IF PrefixPresent(prefixes) THEN @ ELSE @ + 1]
            ELSE /\ undostack' = undostack \o DropCommands(ent.value, checkedId)
                 /\ macros' = macros   \* beginMacro before the pushes, endMacro after them
                 /\ prefixes' =
                        IF PrefixPresent(prefixes) THEN prefixes
                        ELSE setPrefix(prefixes, "metastat", MetastatNamespace)
                 /\ drop' = [NoDropEffect EXCEPT !.hasFormat = TRUE, !.accepted = TRUE,
                                !.dialogResult = dialogResult,
                                !.payload = mimeData.payload, !.checkedId = checkedId,
                                !.first = Len(undostack) + 1,
                                !.last = Len(undostack'),
                                !.prefixesAfter = prefixes',
                                !.setPrefixCalls =
                                    IF PrefixPresent(prefixes) THEN @ ELSE @ + 1]

DragBegin == \E row \in 1..Len(model) : mouseMoveEventBegin(row)

DragEnd == mouseMoveEventEnd

\* the drag of the list view is dropped on a diagram while drag.exec_ runs
DragDropped ==
    /\ Len(drag) = 1
    /\ \E outcome \in DialogOutcomes, failure \in HostFailures :
          onDiagramDragDropEvent(drag[1].mimeData, outcome.result, outcome.checkedId,
                                 failure)

\* a drop event of another drag source
DiagramDragDropEvent ==
    \E mimeData \in DropMimeData, outcome \in DialogOutcomes, failure \in HostFailures :
        onDiagramDragDropEvent(mimeData, outcome.result, outcome.checkedId, failure)

\* the prefixes and namespaces that the user binds in the prefix manager of the host
UserPrefixes == {"ms", "metastat"}
UserNamespaces == {MetastatNamespace, "http://example.org/"}

\* the user binds a prefix that the project does not have yet
PrefixAdded ==
    /\ \E p \in UserPrefixes \ DOMAIN prefixes, ns \in UserNamespaces :
          prefixes' = setPrefix(prefixes, p, ns)
    /\ UNCHANGED <<drag, undostack, macros, drop>>

InitDrop ==
    /\ drag = <<>>
    /\ undostack = <<>>
    /\ macros = 0
    /\ prefixes = [p \in {"owl"} |-> "http://www.w3.org/2002/07/owl#"]
    /\ drop = [ran |-> FALSE, hasFormat |-> FALSE, accepted |-> FALSE,
               payload |-> [kind |-> "none"], dialogResult |-> "none", checkedId |-> "",
               first |-> 1, last |-> 0,
               raised |-> "none", dropAction |-> "CopyAction", ignored |-> FALSE,
               prefixesBefore |-> [p \in {"owl"} |-> "http://www.w3.org/2002/07/owl#"],
               prefixesAfter |-> [p \in {"owl"} |-> "http://www.w3.org/2002/07/owl#"],
               setPrefixCalls |-> 0, drops |-> 0, drags |-> 0]

-----------------------------------------------------------------------------
(* __init__.py: MetastatPlugin, its connections to the session, the project *)
(* and the diagrams                                                         *)

Diagrams == {"d1", "d2"}

SgnReady == "session.sgnReady"
SgnUpdateState == "session.sgnUpdateState"
SgnDiagramAdded == "project.sgnDiagramAdded"
SgnDiagramRemoved == "project.sgnDiagramRemoved"
SgnDragDropEvent(diagram) == diagram \o ".sgnDragDropEvent"
SgnModeChanged(diagram) == diagram \o ".sgnModeChanged"

DiagramSignals(diagram) == {SgnDragDropEvent(diagram), SgnModeChanged(diagram)}

Signals ==
    {SgnReady, SgnUpdateState, SgnDiagramAdded, SgnDiagramRemoved}
        \cup UNION {DiagramSignals(d) : d \in Diagrams}

\* the slot of the plugin that each signal is connected to
SlotOf(signal) ==
    CASE signal = SgnReady -> "onSessionReady"
      [] signal = SgnUpdateState -> "doUpdateState"
      [] signal = SgnDiagramAdded -> "onDiagramAdded"
      [] signal = SgnDiagramRemoved -> "onDiagramRemoved"
      [] signal \in {SgnDragDropEvent(d) : d \in Diagrams} -> "onDiagramDragDropEvent"
      [] OTHER -> "onDiagramModeChanged"

\* connect(signal, slot) run times times: every call adds a connection
Connect(conns, signals, times) ==
    [s \in Signals |-> IF s \in signals THEN conns[s] + times ELSE conns[s]]

\* disconnect(signal, slot): all the connections of the signal to the slot go
Disconnect(conns, signals) ==
    [s \in Signals |-> IF s \in signals THEN 0 ELSE conns[s]]

\* a signal is emitted: the slot runs once for each connection
Emitted(signal) ==
    [signal |-> signal, slot |-> SlotOf(signal), invoked |-> connections[signal],
     disposed |-> disposed]

\* onSessionReady, run for an emission of session.sgnReady
onSessionReady ==
    /\ readyEvents < MaxReady
    /\ readyEvents' = readyEvents + 1
    /\ emission' = Emitted(SgnReady)
    /\ connections' =
          Connect(connections,
                  {SgnDiagramAdded, SgnDiagramRemoved}
                      \cup UNION {DiagramSignals(d) : d \in diagrams},
                  connections[SgnReady])
    /\ UNCHANGED <<diagrams, disposed>>

\* the project gets a diagram and emits sgnDiagramAdded: onDiagramAdded
onDiagramAdded(diagram) ==
    /\ diagram \notin diagrams
    /\ diagrams' = diagrams \cup {diagram}
    /\ emission' = Emitted(SgnDiagramAdded)
    /\ connections' =
          Connect(connections, DiagramSignals(diagram), connections[SgnDiagramAdded])
    /\ UNCHANGED <<disposed, readyEvents>>

\* the project loses a diagram and emits sgnDiagramRemoved: onDiagramRemoved
onDiagramRemoved(diagram) ==
    /\ diagram \in diagrams
    /\ diagrams' = diagrams \ {diagram}
    /\ emission' = Emitted(SgnDiagramRemoved)
    /\ connections' =
          IF connections[SgnDiagramRemoved] > 0
          THEN Disconnect(connections, DiagramSignals(diagram))
          ELSE connections
    /\ UNCHANGED <<disposed, readyEvents>>

\* a signal whose slot changes no connection: sgnDragDropEvent or
\* sgnModeChanged of a diagram of the project, or session.sgnUpdateState
signalEmitted(signal) ==
    /\ emission' = Emitted(signal)
    /\ UNCHANGED <<connections, diagrams, disposed, readyEvents>>

\* dispose
dispose ==
    /\ ~disposed
    /\ disposed' = TRUE
    /\ connections' =
          Disconnect(connections,
                     UNION {DiagramSignals(d) : d \in diagrams}
                         \cup {SgnReady, SgnUpdateState})
    /\ UNCHANGED <<diagrams, readyEvents, emission>>

SessionReady == onSessionReady
DiagramAdded == \E d \in Diagrams : onDiagramAdded(d)
DiagramRemoved == \E d \in Diagrams : onDiagramRemoved(d)
DiagramSignal ==
    \E d \in diagrams : \E signal \in DiagramSignals(d) : signalEmitted(signal)
UpdateState == signalEmitted(SgnUpdateState)
Dispose == dispose

\* the state that start leaves: the two signals of the session are connected
InitPlugin ==
    /\ connections = [s \in Signals |-> IF s \in {SgnReady, SgnUpdateState} THEN 1 ELSE 0]
    /\ diagrams = {"d1"}
    /\ disposed = FALSE
    /\ readyEvents = 0
    /\ emission = [signal |-> "", slot |-> "", invoked |-> 0, disposed |-> FALSE]

-----------------------------------------------------------------------------
(* dialogs.py: EntityTypeDialog, opened by onDiagramDragDropEvent *)

RadioButtons == {"Class", "Object Property", "Data Property", "Individual"}

\* button ids with those of the two property buttons exchanged
ButtonIdSwapped(label) ==
    CASE label = "Class" -> ConceptNode
      [] label = "Object Property" -> AttributeNode
      [] label = "Data Property" -> RoleNode
      [] label = "Individual" -> IndividualNode

\* button_group.addButton(rb, id): the id given to each radio button
ButtonId(label) ==
    CASE label = "Class" -> ConceptNode
      [] label = "Object Property" -> RoleNode
      [] label = "Data Property" -> AttributeNode
      [] label = "Individual" -> IndividualNode

\* button_group.checkedId() as a string: -1 when no button is checked
CheckedId(checkedButton) ==
    IF Len(checkedButton) = 1 THEN ButtonId(checkedButton[1]) ELSE "-1"

\* an Ok button that is left as QDialogButtonBox creates it: enabled
doUpdateStateAlways(checkedButton) == TRUE

\* doUpdateState: the enabled state it gives the Ok button
doUpdateState(checkedButton) == Len(checkedButton) = 1

\* onDiagramDragDropEvent up to dialog.exec_: EntityTypeDialog.__init__, which
\* ends with doUpdateState(False)
EntityTypeDialogInit(mimeData) ==
    /\ ~dialog.open
    /\ drop.drops < MaxDrops
    /\ hasFormat(mimeData, MetastatFormat)
    /\ dialog' = [open |-> TRUE, mimeData |-> mimeData, checkedButton |-> <<>>,
                  okEnabled |-> doUpdateState(<<>>), result |-> "none"]
    /\ UNCHANGED dropVars

\* the user clicks a radio button: in the exclusive group the button becomes
\* the checked one, and doUpdateState runs for toggled(False) of the button
\* that was checked and for toggled(True) of the one clicked; a click on the
\* checked button toggles nothing
radioClicked(label) ==
    /\ dialog.open
    /\ dialog' = IF dialog.checkedButton = <<label>> THEN dialog
                 ELSE [dialog EXCEPT !.checkedButton = <<label>>,
                                     !.okEnabled = doUpdateState(<<label>>)]
    /\ UNCHANGED dropVars

\* the user clicks Ok, which an enabled button only takes: accept, and the
\* handler goes on behind dialog.exec_
okClicked ==
    /\ dialog.open
    /\ dialog.okEnabled
    /\ dialog' = [dialog EXCEPT !.open = FALSE, !.result = "Accepted"]
    /\ \E failure \in HostFailures :
          onDiagramDragDropEvent(dialog.mimeData, "Accepted",
                                 CheckedId(dialog.checkedButton), failure)

\* the user clicks Cancel or closes the window: reject
cancelClicked ==
    /\ dialog.open
    /\ dialog' = [dialog EXCEPT !.open = FALSE, !.result = "Rejected"]
    /\ onDiagramDragDropEvent(dialog.mimeData, "Rejected",
                              CheckedId(dialog.checkedButton), "none")

DialogOpened == \E mimeData \in DropMimeData : EntityTypeDialogInit(mimeData)
RadioClicked == \E label \in RadioButtons : radioClicked(label)
OkClicked == okClicked
CancelClicked == cancelClicked

InitDialog ==
    dialog = [open |-> FALSE, mimeData |-> MimeData("", "text/plain", [kind |-> "none"]),
              checkedButton |-> <<>>, okEnabled |-> FALSE, result |-> "none"]

-----------------------------------------------------------------------------
(* Specifications *)

Init ==
    /\ InitRepos /\ InitFetch /\ InitFilter /\ InitDrop /\ InitDto /\ InitDetails
    /\ InitPlugin /\ InitDialog

\* the repository manager dialog
NextRepos ==
    \/ AddRepository /\ UNCHANGED <<fetchVars, filterVars, dropVars, dtoVars, detailsVars, pluginVars, dialogVars>>
    \/ RemoveRepository /\ UNCHANGED <<fetchVars, filterVars, dropVars, dtoVars, detailsVars, pluginVars, dialogVars>>

SpecRepos == Init /\ [][NextRepos]_vars

\* the fetches of the list widget
NextFetch ==
    \/ GetData /\ UNCHANGED <<reposVars, dropVars, dtoVars, detailsVars, pluginVars, dialogVars>>
    \/ RequestCompleted /\ UNCHANGED <<reposVars, dropVars, dtoVars, detailsVars, pluginVars, dialogVars>>

SpecFetch == Init /\ [][NextFetch]_vars

\* the filters of the list widget over the rows of the fetch of the constructor
NextFilter ==
    \/ RequestCompleted /\ UNCHANGED <<reposVars, dropVars, dtoVars, detailsVars, pluginVars, dialogVars>>
    \/ FilterByIri /\ UNCHANGED <<reposVars, dropVars, dtoVars, detailsVars, pluginVars, dialogVars>>
    \/ TypeChanged /\ UNCHANGED <<reposVars, dropVars, dtoVars, detailsVars, pluginVars, dialogVars>>
    \/ LemmaChanged /\ UNCHANGED <<reposVars, dropVars, dtoVars, detailsVars, pluginVars, dialogVars>>
    \/ DescriptionChanged /\ UNCHANGED <<reposVars, dropVars, dtoVars, detailsVars, pluginVars, dialogVars>>
    \/ OwnerChanged /\ UNCHANGED <<reposVars, dropVars, dtoVars, detailsVars, pluginVars, dialogVars>>

SpecFilter == Init /\ [][NextFilter]_vars

\* drags out of the list view, over the rows of the fetch of the constructor,
\* and their drops on a diagram
NextDrag ==
    \/ RequestCompleted /\ UNCHANGED <<reposVars, dropVars, dtoVars, detailsVars, pluginVars, dialogVars>>
    \/ DragBegin /\ UNCHANGED <<reposVars, fetchVars, filterVars, dtoVars, detailsVars, pluginVars, dialogVars>>
    \/ DragDropped /\ UNCHANGED <<reposVars, fetchVars, filterVars, dtoVars, detailsVars, pluginVars, dialogVars>>
    \/ DragEnd /\ UNCHANGED <<reposVars, fetchVars, filterVars, dtoVars, detailsVars, pluginVars, dialogVars>>

SpecDrag == Init /\ [][NextDrag]_vars

\* the drop events that other drag sources deliver to onDiagramDragDropEvent
NextDrop ==
    \/ PrefixAdded
          /\ UNCHANGED <<reposVars, fetchVars, filterVars, dtoVars, detailsVars, pluginVars, dialogVars>>
    \/ DiagramDragDropEvent /\ UNCHANGED <<reposVars, fetchVars, filterVars, dtoVars, detailsVars, pluginVars, dialogVars>>

SpecDrop == Init /\ [][NextDrop]_vars

-----------------------------------------------------------------------------
\* the repository manager dialog and the fetches of the list widget
NextSelect ==
    \/ AddRepository /\ UNCHANGED <<fetchVars, filterVars, dropVars, dtoVars, detailsVars, pluginVars, dialogVars>>
    \/ RemoveRepository /\ UNCHANGED <<fetchVars, filterVars, dropVars, dtoVars, detailsVars, pluginVars, dialogVars>>
    \/ GetData /\ UNCHANGED <<reposVars, dropVars, dtoVars, detailsVars, pluginVars, dialogVars>>

SpecSelect == Init /\ [][NextSelect]_vars

\* the fetches of the list widget, every finished signal being delivered
SpecFetchFair ==
    SpecFetch /\ WF_vars(RequestCompleted /\ UNCHANGED <<reposVars, dropVars, dtoVars, detailsVars, pluginVars, dialogVars>>)

\* presses on the rows of the list view, over the rows of the fetch of the
\* constructor and under the IRI filter
NextDetails ==
    \/ RequestCompleted /\ UNCHANGED <<reposVars, dropVars, dtoVars, detailsVars, pluginVars, dialogVars>>
    \/ FilterByIri /\ UNCHANGED <<reposVars, dropVars, dtoVars, detailsVars, pluginVars, dialogVars>>
    \/ ItemPressed /\ UNCHANGED <<reposVars, dropVars, dtoVars, pluginVars, dialogVars>>

SpecDetails == Init /\ [][NextDetails]_vars

\* the signals of the session, the project and the diagrams, and dispose
NextPlugin ==
    \/ SessionReady
          /\ UNCHANGED <<reposVars, fetchVars, filterVars, dropVars, dtoVars, detailsVars, dialogVars>>
    \/ DiagramAdded
          /\ UNCHANGED <<reposVars, fetchVars, filterVars, dropVars, dtoVars, detailsVars, dialogVars>>
    \/ DiagramRemoved
          /\ UNCHANGED <<reposVars, fetchVars, filterVars, dropVars, dtoVars, detailsVars, dialogVars>>
    \/ DiagramSignal
          /\ UNCHANGED <<reposVars, fetchVars, filterVars, dropVars, dtoVars, detailsVars, dialogVars>>
    \/ UpdateState
          /\ UNCHANGED <<reposVars, fetchVars, filterVars, dropVars, dtoVars, detailsVars, dialogVars>>
    \/ Dispose
          /\ UNCHANGED <<reposVars, fetchVars, filterVars, dropVars, dtoVars, detailsVars, dialogVars>>

SpecPlugin == Init /\ [][NextPlugin]_vars

\* drops with the metastat format, handled through the entity type dialog
NextDialog ==
    \/ DialogOpened
          /\ UNCHANGED <<reposVars, fetchVars, filterVars, dtoVars, detailsVars, pluginVars>>
    \/ RadioClicked
          /\ UNCHANGED <<reposVars, fetchVars, filterVars, dtoVars, detailsVars, pluginVars>>
    \/ OkClicked
          /\ UNCHANGED <<reposVars, fetchVars, filterVars, dtoVars, detailsVars, pluginVars>>
    \/ CancelClicked
          /\ UNCHANGED <<reposVars, fetchVars, filterVars, dtoVars, detailsVars, pluginVars>>

SpecDialog == Init /\ [][NextDialog]_vars

\* an entity object through from_dict, to_dict(deep=True) and from_dict
NextDto ==
    \/ FromDict /\ UNCHANGED <<reposVars, fetchVars, filterVars, dropVars, detailsVars, pluginVars, dialogVars>>
    \/ ToDict /\ UNCHANGED <<reposVars, fetchVars, filterVars, dropVars, detailsVars, pluginVars, dialogVars>>
    \/ FromDictAgain /\ UNCHANGED <<reposVars, fetchVars, filterVars, dropVars, detailsVars, pluginVars, dialogVars>>

SpecDto == Init /\ [][NextDto]_vars

-----------------------------------------------------------------------------
(* Properties of the list widget *)

\* the objects of a reply from which an entity can be built
WellFormed(object) ==
    /\ {"id", "type"} \subseteq DOMAIN object
    /\ \A key \in {"lemma", "definition"} :
          key \in DOMAIN object
              => \A k \in 1..Len(object[key]) :
                    {"value", "lang"} \subseteq DOMAIN object[key][k]

Successful(reply) ==
    /\ ~reply.error
    /\ reply.json
    /\ \A k \in 1..Len(reply.data) : WellFormed(reply.data[k])

\* C1: once onRequestCompleted has processed a successful reply, the list
\* model has exactly one row per entity of that reply; no row of an earlier
\* reply is left in it.
C1_LastRequestWins ==
    (cb.ran /\ Successful(cb.reply))
        => /\ Len(model) = Len(cb.reply.data)
           /\ \A k \in 1..Len(model) :
                 /\ model[k].text = cb.reply.data[k].id
                 /\ model[k].data.id = cb.reply.data[k].id

\* the lemma or definition values of an entity of the list model
AnnotationValues(annotations) ==
    {annotations[k].object.value : k \in 1..Len(annotations)}

\* C4: a row is visible if and only if each of the five filter inputs that is
\* not empty occurs, regardless of case, in the corresponding field of the
\* entity of the row: id, type, a lemma, a definition, the owner name.
C4_FiveFiltersConjunction ==
    \A r \in 1..Len(model) :
        filterAcceptsRow(r) <=>
            LET e == model[r].data IN
            /\ search = "" \/ ContainsCI(e.id, search)
            /\ typeCombobox = "" \/ ContainsCI(e.type, typeCombobox)
            /\ lemma = "" \/ \E v \in AnnotationValues(e.lemmas) : ContainsCI(v, lemma)
            /\ description = ""
                  \/ \E v \in AnnotationValues(e.definitions) : ContainsCI(v, description)
            /\ owner = ""
                  \/ \E k \in 1..Len(e.owner) : ContainsCI(e.owner[k].name, owner)

\* C5: every failed fetch, a network error as well as a payload that does not
\* parse, is logged and shown in the status bar by onRequestCompleted.
C5_FailureSurfaced ==
    (cb.ran /\ ~Successful(cb.reply)) => (cb.logged /\ cb.shown)

\* C6: whatever the reply (network error, invalid JSON, malformed entity
\* object), no exception leaves onRequestCompleted and the callback issues no
\* new request.
C6_CaughtNeverRetried ==
    cb.ran => (~cb.propagated /\ cb.issued = 0)

C6_Witness ==
    /\ cb.ran
    /\ cb.raised = "JSONDecodeError"
    /\ ~cb.propagated
    /\ log.level = "error"
    /\ inflight = 0

-----------------------------------------------------------------------------
(* Properties of the drag and drop *)

OptionalList(object, key) == IF key \in DOMAIN object THEN object[key] ELSE <<>>

\* C2: the MIME data of a drag out of the list view has the format
\* application/json+metastat and carries the entity dict, from which
\* NamedEntity.from_dict gives the id, type, lemmas, definitions and owner of
\* the dragged entity.
C2_DragPayloadAgrees ==
    \A k \in 1..Len(drag) :
        LET e == drag[k].entity
            m == drag[k].mimeData
        IN  /\ hasFormat(m, MetastatFormat)
            /\ m.payload.kind = "json"
            /\ PayloadEntity(m.payload).ok
            /\ LET got == PayloadEntity(m.payload).value IN
               /\ got.id = e.id
               /\ got.type = e.type
               /\ Len(got.lemma) = Len(e.lemmas)
               /\ \A i \in 1..Len(got.lemma) :
                     /\ got.lemma[i].value = e.lemmas[i].object.value
                     /\ got.lemma[i].lang = e.lemmas[i].object.language
               /\ Len(got.definition) = Len(e.definitions)
               /\ \A i \in 1..Len(got.definition) :
                     /\ got.definition[i].value = e.definitions[i].object.value
                     /\ got.definition[i].lang = e.definitions[i].object.language
               /\ Len(got.owner) = Len(e.owner)
               /\ \A i \in 1..Len(got.owner) :
                     /\ got.owner[i].id = <<e.owner[i].id>>
                     /\ got.owner[i].name = <<e.owner[i].name>>

\* C3: an accepted drop of an entity pushes 2 + lemmas + definitions commands:
\* the origin assertion, one rdfs:label assertion per lemma in list order with
\* its value and language, one rdfs:comment assertion per definition in list
\* order, and last the node-add command; every one of them names the IRI
\* http://www.istat.it/metastat/<id>, which is NamedEntity.iri.
C3_DropCommandsInOrder ==
    (drop.ran /\ drop.accepted /\ drop.raised = "none")
        => LET o == drop.payload.object
               lemmas == OptionalList(o, "lemma")
               definitions == OptionalList(o, "definition")
               pushed == SubSeq(undostack, drop.first, drop.last)
               iri == "http://www.istat.it/metastat/" \o o.id
               nl == Len(lemmas)
               nd == Len(definitions)
           IN  /\ Len(pushed) = 2 + nl + nd
               /\ \A k \in 1..Len(pushed) : pushed[k].subject = iri
               /\ \A k \in 1..(Len(pushed) - 1) :
                     pushed[k].cmd = "CommandIRIAddAnnotationAssertion"
               /\ pushed[1].predicate = "urn:x-graphol:origin"
               /\ \A k \in 1..nl :
                     /\ pushed[1 + k].predicate = RdfsLabel
                     /\ pushed[1 + k].value = lemmas[k].value
                     /\ pushed[1 + k].language = lemmas[k].lang
               /\ \A k \in 1..nd :
                     /\ pushed[1 + nl + k].predicate = RdfsComment
                     /\ pushed[1 + nl + k].value = definitions[k].value
                     /\ pushed[1 + nl + k].language = definitions[k].lang
               /\ pushed[Len(pushed)].cmd = "CommandNodeAdd"
               /\ iri = NamedEntityIri(NamedEntityFromDict(o).value)

C3_Witness ==
    /\ drop.ran /\ drop.accepted /\ drop.raised = "none"
    /\ Len(OptionalList(drop.payload.object, "lemma")) = 2
    /\ Len(OptionalList(drop.payload.object, "definition")) = 1
    /\ drop.last - drop.first = 4
    /\ undostack[drop.last].cmd = "CommandNodeAdd"

-----------------------------------------------------------------------------
(* Properties of the repository manager dialog and of the persisted list *)

NamesDistinct(repos) ==
    \A i, j \in 1..Len(repos) : i # j => repos[i].name # repos[j].name

ElementsOf(seq) == {seq[i] : i \in 1..Len(seq)}

\* C7: the names of the persisted repository list are pairwise distinct in
\* every state reached by doAddRepository and doRemoveRepository, and a
\* doAddRepository whose name is the name of a saved repository leaves the
\* persisted list as it was.
C7_NamesStayUnique ==
    /\ NamesDistinct(Load(settings))
    /\ (lastOp.op = "add"
            /\ (\E i \in 1..Len(Load(lastOp.settings)) :
                    Load(lastOp.settings)[i].name = lastOp.name))
        => Load(settings) = Load(lastOp.settings)

C7_Witness ==
    /\ lastOp.op = "add"
    /\ msgBox = "Duplicate Repository Error"
    /\ Len(Load(settings)) >= 2
    /\ \E i \in 1..Len(Load(settings)) : Load(settings)[i].name = lastOp.name

\* C8: a doAddRepository with an empty name or with a URI that is not a valid
\* URL changes neither the persisted list nor the table, does not call
\* Repository.save and does not emit sgnUpdated.
C8_MalformedRejected ==
    (lastOp.op = "add" /\ (Len(lastOp.name) = 0 \/ lastOp.uri \in {"", "http://a b/"}))
        => /\ settings = lastOp.settings
           /\ table = lastOp.table
           /\ saveCalls = lastOp.saveCalls
           /\ emitted = lastOp.emitted

C8_Witness ==
    /\ lastOp.op = "add"
    /\ msgBox \in {"Invalid Repository Name", "Invalid Repository URI"}
    /\ Len(table) >= 1
    /\ saveCalls >= 1

\* C9: after doRemoveRepository the persisted list holds exactly the
\* repositories of the table rows that were not selected, for every selection
\* (one row, a range of several rows, several disjoint ranges).
C9_RemovesSelected ==
    lastOp.op = "remove"
        => ElementsOf(Load(settings)) =
              {lastOp.table[r] :
                  r \in (1..Len(lastOp.table)) \ SelectedRows(lastOp.selections)}

\* C10: after any sequence of saves, Repository.load returns the list handed
\* to the most recent Repository.save: same length, same (name, uri) pairs,
\* same order, also when it is shorter than an earlier list or empty.
C10_SaveLoadRoundTrip ==
    saveCalls > 0 => Load(settings) = lastSaved

C10_Witness ==
    /\ saveCalls >= 2
    /\ Len(lastSaved) >= 1
    /\ Len(lastSaved) < Len(settings.entries)

-----------------------------------------------------------------------------
(* Properties of from_dict and to_dict *)

\* C11: for an entity e that model.NamedEntity.from_dict built from a payload
\* object, from_dict(e.to_dict(deep=True)) succeeds and gives an entity with the
\* id, the type, the lemma list, the definition list and the owner of e: the
\* same owner id and name, or no owner when e has none.
C11_RoundTrip ==
    (dto.step = "round_trip" /\ dto.cls = "model.NamedEntity")
        => /\ dto.again.ok
           /\ LET e == dto.entity.value
                  r == dto.again.value
              IN  /\ r.id = e.id
                  /\ r.type = e.type
                  /\ r.lemma = e.lemma
                  /\ r.definition = e.definition
                  /\ Len(r.owner) = Len(e.owner)
                  /\ Len(e.owner) = 1
                        => /\ r.owner[1].id = e.owner[1].id
                           /\ r.owner[1].name = e.owner[1].name

\* the lemma list, definition list and owner of an entity of either class
EntityLemmas(cls, entity) ==
    IF cls = "model.NamedEntity" THEN entity.lemma ELSE entity.lemmas

EntityDefinitions(cls, entity) ==
    IF cls = "model.NamedEntity" THEN entity.definition ELSE entity.definitions

\* C12: for an object with id and type and any subset of the optional keys,
\* from_dict succeeds and gives an empty lemma list, an empty definition list
\* and no owner for the keys that are absent, and to_dict(deep=True) of the
\* entity succeeds.
C12_TotalOnInboundShape ==
    /\ dto.step \in {"from_dict", "to_dict", "round_trip"}
          => /\ dto.entity.ok
             /\ "lemma" \notin DOMAIN dto.data
                   => EntityLemmas(dto.cls, dto.entity.value) = <<>>
             /\ "definition" \notin DOMAIN dto.data
                   => EntityDefinitions(dto.cls, dto.entity.value) = <<>>
             /\ "owner" \notin DOMAIN dto.data => dto.entity.value.owner = <<>>
    /\ dto.step \in {"to_dict", "round_trip"} => dto.dict.ok

-----------------------------------------------------------------------------
(* Properties of the requests of the list widget *)

\* u is the beginning of url
StartsWith(url, u) == Len(u) <= Len(url) /\ SubSeq(url, 1, Len(u)) = u

\* C13: every GET that is issued while repository records are configured is
\* addressed to the URI of one of the configured records, not to any other
\* endpoint.
C13_GetAddressedToRepository ==
    \A k \in 1..Len(nmanager) :
        nmanager[k].configured # {}
            => \E u \in nmanager[k].configured : StartsWith(nmanager[k].url, u)

\* C14: onRequestCompleted has run at most once for each request of getData and
\* runs once for every request that is still pending; the rows of the list
\* model change only in a step that is a run of onRequestCompleted; every
\* request is eventually followed by its run of the callback.
C14_CallbackOncePerRequest ==
    /\ [](callbacks + inflight = requests /\ Len(nmanager) = requests)
    /\ [][model' # model => callbacks' = callbacks + 1]_vars
    /\ (inflight > 0) ~> (callbacks = requests)

C14_Witness ==
    /\ requests = MaxFetches
    /\ callbacks = requests
    /\ Len(model) >= 2

-----------------------------------------------------------------------------
(* Properties of the details panel *)

\* C15: after a left button press on a row of the view, the details panel
\* shows the id, the owner name, the type and the annotations of the entity of
\* the source row behind the pressed row; the owner field is empty when that
\* entity has no owner.
C15_DetailsShowPressedEntity ==
    (press.ran /\ press.leftButton)
        => /\ details.shown = "infoEntity"
           /\ details.entity = <<press.entity>>
           /\ details.idField = press.entity.id
           /\ details.typeField = press.entity.type
           /\ details.ownerField =
                 (IF Len(press.entity.owner) = 1 THEN press.entity.owner[1].name ELSE "")
           /\ details.metadata = MetadataRows("Label", press.entity.lemmas)
                                    \o MetadataRows("Comment", press.entity.definitions)

-----------------------------------------------------------------------------
(* Properties of the connections of the plugin *)

\* C16: a signal of the session, the project or a diagram that is emitted
\* after dispose invokes no slot of the plugin; this holds for the signal of a
\* diagram that is added to the project after dispose as well.
C16_NoSlotAfterDispose ==
    emission.disposed => emission.invoked = 0

-----------------------------------------------------------------------------
(* Properties of the update signal and of the persisted order *)

\* C17: sgnUpdated has been emitted once for each call of Repository.save, and
\* a listener that calls Repository.load when it is notified gets the list that
\* was handed to that save.
C17_UpdatedAfterWrite ==
    /\ emitted = saveCalls
    /\ saveCalls > 0 => heard = lastSaved

C17_Witness ==
    /\ saveCalls >= 2
    /\ emitted = saveCalls
    /\ Len(heard) >= 1
    /\ heard # Load(lastOp.settings)

-----------------------------------------------------------------------------
(* Properties of the prefix of the metastat namespace *)

PositionIn(list, record) ==
    IF \E i \in 1..Len(list) : list[i] = record
    THEN CHOOSE i \in 1..Len(list) :
            list[i] = record /\ \A j \in 1..(i - 1) : list[j] # record
    ELSE 0

\* C19: after doRemoveRepository the repositories of the persisted list were
\* all in the persisted list before the call and stand in the same relative
\* order as they did there.
C19_RemovalKeepsOrder ==
    lastOp.op = "remove"
        => LET before == Load(lastOp.settings)
               after == Load(settings)
           IN  \A i, j \in 1..Len(after) :
                  /\ PositionIn(before, after[i]) > 0
                  /\ i < j => PositionIn(before, after[i]) < PositionIn(before, after[j])

-----------------------------------------------------------------------------
(* Properties of the rows that a reply adds *)

\* the literals of a list of annotations: value and language, in list order
LiteralsOf(annotations) ==
    [k \in 1..Len(annotations) |->
        [value |-> annotations[k].object.value, lang |-> annotations[k].object.language]]

\* C20: after onRequestCompleted has processed a successful reply, the rows
\* that were in the model before are still its first rows, and behind them
\* stands one row for each object of the JSON array, in array order: the k-th
\* of these rows has the id of the k-th object as text, and as data the entity
\* with the id, type, lemmas, definitions and owner of that object.
C20_RowsInArrayOrder ==
    (cb.ran /\ Successful(cb.reply))
        => LET data == cb.reply.data
               n == Len(cb.before)
           IN  /\ Len(model) = n + Len(data)
               /\ SubSeq(model, 1, n) = cb.before
               /\ \A k \in 1..Len(data) :
                     LET row == model[n + k]
                         d == data[k]
                     IN  /\ row.text = d.id
                         /\ row.data.id = d.id
                         /\ row.data.type = d.type
                         /\ LiteralsOf(row.data.lemmas) = OptionalList(d, "lemma")
                         /\ LiteralsOf(row.data.definitions) = OptionalList(d, "definition")
                         /\ row.data.owner =
                               (IF "owner" \in DOMAIN d THEN <<d.owner>> ELSE <<>>)

C20_Witness ==
    /\ cb.ran
    /\ Successful(cb.reply)
    /\ Len(cb.reply.data) = 2
    /\ cb.reply.data[1] # cb.reply.data[2]
    /\ Len(cb.before) >= 1
    /\ Len(model) = Len(cb.before) + 2

-----------------------------------------------------------------------------
(* Properties of the entity type dialog *)

\* C21: a dialog that was accepted has one of the four radio buttons checked,
\* and the node that the accepted drop adds has the type of that button:
\* Class a concept node, Object Property a role node, Data Property an
\* attribute node, Individual an individual node.
C21_NodeTypeOfCheckedButton ==
    dialog.result = "Accepted"
        => /\ dialog.checkedButton \in {<<label>> : label \in RadioButtons}
           /\ drop.accepted
           /\ drop.raised = "none"
                 => /\ undostack[drop.last].cmd = "CommandNodeAdd"
                    /\ undostack[drop.last].item =
                          (CASE dialog.checkedButton = <<"Class">> -> ConceptNode
                             [] dialog.checkedButton = <<"Object Property">> -> RoleNode
                             [] dialog.checkedButton = <<"Data Property">> -> AttributeNode
                             [] dialog.checkedButton = <<"Individual">> -> IndividualNode)

C21_Witness ==
    /\ dialog.result = "Accepted"
    /\ dialog.checkedButton = <<"Object Property">>
    /\ drop.accepted
    /\ drop.raised = "none"
    /\ drop.drops = 2
    /\ undostack[drop.last].item = RoleNode

-----------------------------------------------------------------------------
(* Properties of the drop handler *)

\* C22: when onDiagramDragDropEvent has returned, no macro is open on the undo
\* stack: every beginMacro of the handler has been followed by its endMacro,
\* also when a host call between the two has raised.
C22_MacrosBalanced ==
    drop.ran => macros = 0

\* C23: a run of onDiagramDragDropEvent on MIME data without the format
\* application/json+metastat, or with the entity type dialog not accepted,
\* pushes no command, opens no macro and sets no prefix; with the dialog
\* rejected the event is ignored and its drop action is IgnoreAction.
C23_OnlyAcceptedDropChangesProject ==
    [][(/\ drop'.drops = drop.drops + 1
        /\ (~drop'.hasFormat \/ drop'.dialogResult # "Accepted"))
          => /\ undostack' = undostack
             /\ macros' = macros
             /\ prefixes' = prefixes
             /\ drop'.hasFormat =>
                    drop'.ignored /\ drop'.dropAction = "IgnoreAction"]_vars

\* a rejected drop of a well-formed entity behind an accepted one
C23_Witness ==
    /\ drop.drops = 2
    /\ drop.hasFormat
    /\ drop.dialogResult = "Rejected"
    /\ drop.payload.kind # "none"
    /\ drop.ignored
    /\ Len(undostack) > 0

-----------------------------------------------------------------------------
(* Properties of the connections of the plugin *)

\* C24: once onSessionReady has run and until dispose, whatever diagrams are
\* added and removed and however often the session gets ready,
\* onDiagramDragDropEvent is connected once to sgnDragDropEvent of every
\* diagram of the project and not at all to that of any other diagram.
C24_ConnectedOncePerDiagram ==
    (readyEvents >= 1 /\ ~disposed)
        => \A d \in Diagrams :
              connections[SgnDragDropEvent(d)] = (IF d \in diagrams THEN 1 ELSE 0)

-----------------------------------------------------------------------------
(* Properties of the Ok button of the entity type dialog *)

\* C25: the Ok button of EntityTypeDialog is enabled exactly when one of the
\* four radio buttons is checked: it is disabled when the dialog opens, and
\* once enabled it stays enabled while the dialog is open, whatever button
\* is selected next.
C25_OkEnabledIffChecked ==
    /\ [](/\ dialog.okEnabled <=> dialog.checkedButton # <<>>
          /\ dialog.checkedButton # <<>> => dialog.checkedButton[1] \in RadioButtons)
    /\ [][(~dialog.open /\ dialog'.open) => ~dialog'.okEnabled]_vars
    /\ [][(dialog.open /\ dialog'.open /\ dialog.okEnabled) => dialog'.okEnabled]_vars

\* the second dialog, open with a radio button checked and Ok enabled
C25_Witness ==
    /\ dialog.open
    /\ drop.drops = 1
    /\ dialog.checkedButton = <<"Individual">>
    /\ dialog.okEnabled

====
